---- MODULE Spec2Model ----
(***************************************************************************)
(* Trailing-stop supervision of the MetaTrader5 quant server:              *)
(*   src/app/trailing_stop_worker.py  the job registry, the worker loop    *)
(*                                    and its start/stop controller        *)
(*   src/app/lib.py                   apply_trailing_stop                  *)
(*   src/app/routes/position.py       the endpoints calling the registry   *)
(*                                                                         *)
(* Threads.  The worker loop runs in its own threading.Thread; every HTTP  *)
(* request runs in a caller thread; start_worker / stop_worker run in the  *)
(* hosting (main) thread.  No lock is taken anywhere in the source, so an  *)
(* action of this module is one step that CPython executes without giving  *)
(* up the interpreter: one dictionary operation (in, [], []=, del,         *)
(* list(d.keys()), one next() of a dictionary iterator) or one call of     *)
(* the terminal (an mt5 function), with the thread-local code around it.   *)
(***************************************************************************)
EXTENDS Integers, Sequences, FiniteSets, TLC

(* ---------------------------- bounds ----------------------------------- *)

\* Worker threads that start_worker may create in one run: thread 1, 2, ...
\* (every start after the previous thread ended or was abandoned creates one).
MaxThreads == 2

Threads == 1..MaxThreads

\* Caller (HTTP request) threads.
ApiThreads == {1, 2}

\* Position tickets known to the terminal.
Tickets == {1, 2}

\* Trailing distances (in points) a caller may submit.
Distances == {50, 80}

\* The calculator alone: quotes and stops of MinPoint..MaxPoint whole
\* points, distances of -Sub..MaxDist units (tenths of a point).
MinPoint == 8
MaxPoint == 12
MaxDist == 25

(* ------------------- the dictionary active_trailing_stop_jobs ---------- *)
(* A Python dict keeps insertion order: it is the sequence of its entries. *)

\* One entry {position_ticket: trailing_distance}.
Entry(t, d) == [ticket |-> t, distance |-> d]

\* `t in d`
Has(d, t) == \E i \in 1..Len(d) : d[i].ticket = t

\* index of the entry of key t (t is a key of d)
IndexOf(d, t) == CHOOSE i \in 1..Len(d) : d[i].ticket = t

\* `d[t]` for a key t of d
Get(d, t) == d[IndexOf(d, t)].distance

\* a faulty `list(d.keys())` that yields the oldest key only
KeysOldest(d) == [i \in 1..(IF d = <<>> THEN 0 ELSE 1) |-> d[i].ticket]

\* `list(d.keys())`
Keys(d) == [i \in 1..Len(d) |-> d[i].ticket]

\* a faulty `d[t] = v` that always adds an entry
PutAppend(d, t, v) == Append(d, Entry(t, v))

\* a faulty `d[t] = v` that leaves the value of an existing key as it is
PutIfAbsent(d, t, v) ==
    IF Has(d, t) THEN d ELSE Append(d, Entry(t, v))

\* `d[t] = v`: the entry of an existing key is overwritten in place, a new key
\* is appended.
Put(d, t, v) ==
    IF Has(d, t) THEN [d EXCEPT ![IndexOf(d, t)] = Entry(t, v)]
                 ELSE Append(d, Entry(t, v))

\* a faulty `del d[t]` that drops the entry and everything inserted after it
DelFrom(d, t) == SubSeq(d, 1, IndexOf(d, t) - 1)

\* `del d[t]` for a key t of d
Del(d, t) == SelectSeq(d, LAMBDA e : e.ticket # t)

VARIABLES
    active_trailing_stop_jobs, \* the registry (module global, line 11)
    worker_running,            \* the loop flag (module global, line 14)
    worker_thread,             \* the controller's thread handle; 0 is None
    positions,                 \* terminal: the tickets of the open positions
    tpc,                       \* per worker thread: where it is
    tickets_to_process,        \* per worker thread: the cycle's snapshot
    tidx,                      \* per worker thread: index of position_ticket
    trailing_distance,         \* per worker thread: the distance read (0: unset)
    cpc,                       \* hosting thread: where it is in start/stop
    apc,                       \* per caller thread: where it is
    aargs,                     \* per caller thread: the call's arguments
    aret,                      \* per caller thread: the call that returned: its result
    close_tickets,             \* per caller thread: positions close_all has yet to close
    results,                   \* per caller thread: what close_all_positions collected
    it_used,                   \* per caller thread: the dict size its iterator expects
    it_pos,                    \* per caller thread: live entries its iterator has passed
    jobs_list,                 \* per caller thread: the list being built / returned
    instants,                  \* history, per caller thread: registry contents during
                               \* its list call that its list can still equal
    exc,                       \* per worker thread: the exception being handled
    failedAt,                  \* history, per thread: index of the cycle's first
                               \* ticket whose processing failed (0: none yet)
    absentSeen,                \* history, per thread: tickets of closed positions
                               \* that a lookup of the cycle did not find
    applySeen,                 \* history, per thread: tickets for which the cycle
                               \* made the step-by-step call of apply_trailing_stop
    ptype,                     \* terminal, per ticket: position.type
    sl,                        \* terminal, per ticket: position.sl (0: no stop)
    price,                     \* terminal: the quote apply_trailing_stop reads
    tp,                        \* terminal, per ticket: position.tp (0: none)
    result,                    \* per worker thread: what apply_trailing_stop did last
    request,                   \* per worker thread: the request it built
    cin,                       \* calculator alone: its arguments
    cout                       \* calculator alone: its decision

regVars == <<active_trailing_stop_jobs>>
ctlVars == <<worker_running, worker_thread, cpc>>
thrVars == <<tpc, tickets_to_process, tidx, trailing_distance>>
histVars == <<exc, failedAt, absentSeen, applySeen>>
apiVars == <<apc, aargs, aret, close_tickets, results>>
closeVars == <<close_tickets, results>>
listVars == <<it_used, it_pos, jobs_list, instants>>
mktVars == <<ptype, sl, price, tp>>
calcVars == <<result, request>>
fnVars == <<cin, cout>>

\* the terminal's data and the calculator's: what no registry call, no
\* start / stop and no loop step outside apply_trailing_stop touches
termVars == <<positions, mktVars, calcVars, fnVars>>

vars == <<active_trailing_stop_jobs, worker_running, worker_thread, positions,
          tpc, tickets_to_process, tidx, trailing_distance, cpc,
          apc, aargs, aret, close_tickets, results, it_used, it_pos, jobs_list, instants,
          exc, failedAt, absentSeen, applySeen, ptype, sl, price, tp, result,
          request,
          cin, cout>>

(* Prices.  A price is a whole number of units; Sub units are one point   *)
(* (symbol_info.point), so that the tolerance symbol_info.point * 0.1 of   *)
(* lib.py 317 and 341 is one unit.  The terminal quotes prices and keeps   *)
(* stops in whole points (symbol_info.digits decimals); a distance is in   *)
(* points and may have a fractional part (order.py 212: float).            *)
Sub == 10

\* a faulty tolerance of a whole point
toleranceWholePoint == Sub

\* `tolerance = symbol_info.point * 0.1`
tolerance == Sub \div 10

Max(x, y) == IF x >= y THEN x ELSE y
Min(x, y) == IF x <= y THEN x ELSE y

\* round(new_sl, symbol_info.digits) for a price x >= 0: the nearest whole
\* point, a tie going to the even one (Python's round).
Round(x) ==
    LET q == x \div Sub
        r == x % Sub
    IN IF 2 * r < Sub THEN q * Sub
       ELSE IF 2 * r > Sub THEN (q + 1) * Sub
       ELSE IF q % 2 = 0 THEN q * Sub ELSE (q + 1) * Sub

\* calculated_sl (lib.py 302, 324) for a distance of dist units
calculated_sl(type, current_price, dist) ==
    IF type = "buy" THEN current_price - dist ELSE current_price + dist

\* new_sl (lib.py 307, 329-332)
new_sl(type, current_price, position_sl, dist) ==
    IF type = "buy"
    THEN Max(position_sl, calculated_sl(type, current_price, dist))
    ELSE IF position_sl = 0
         THEN calculated_sl(type, current_price, dist)
         ELSE Min(position_sl, calculated_sl(type, current_price, dist))

\* a faulty market test that lets every stop pass
WrongSideNever(type, current_price, stop) == FALSE

\* lib.py 310 and 336: the stop is not on the protective side of the price
WrongSide(type, current_price, stop) ==
    IF type = "buy" THEN stop >= current_price ELSE stop <= current_price

\* a faulty tolerance test that finds every stop improved
NotBetterNever(type, position_sl, stop) == FALSE

\* lib.py 318 and 344: there is a stop and the new one is not better by
\* more than the tolerance
NotBetter(type, position_sl, stop) ==
    /\ position_sl # 0
    /\ IF type = "buy" THEN stop <= position_sl + tolerance
                        ELSE stop >= position_sl - tolerance

\* a faulty calculator that follows the price both ways: it takes the
\* calculated stop unless it is within the tolerance of the stop
computeNoRatchet(type, current_price, position_sl, dist) ==
    LET stop == calculated_sl(type, current_price, dist)
    IN IF type \notin {"buy", "sell"}
       THEN [decision |-> "Unknown", value |-> 0]
       ELSE IF WrongSide(type, current_price, stop)
       THEN [decision |-> "Reject", value |-> 0]
       ELSE IF position_sl # 0 /\ stop <= position_sl + tolerance
                              /\ stop >= position_sl - tolerance
       THEN [decision |-> "NoChangeNeeded", value |-> 0]
       ELSE [decision |-> "NewStop", value |-> Round(stop)]

\* What lines 296-354 of apply_trailing_stop decide for a position of the
\* given type and stop at the given price: to return a message ("Reject":
\* lines 312 and 338, "NoChangeNeeded": lines 320 and 344), to return None
\* ("Unknown", line 350) or to go on with formatted_new_sl ("NewStop").
computeNewStop(type, current_price, position_sl, dist) ==
    LET stop == new_sl(type, current_price, position_sl, dist)
    IN IF type \notin {"buy", "sell"}
       THEN [decision |-> "Unknown", value |-> 0]
       ELSE IF WrongSide(type, current_price, stop)
       THEN [decision |-> "Reject", value |-> 0]
       ELSE IF NotBetter(type, position_sl, stop)
       THEN [decision |-> "NoChangeNeeded", value |-> 0]
       ELSE [decision |-> "NewStop", value |-> Round(stop)]

NoResult == [ret |-> "none", why |-> "none"]
NoRequest == [sl |-> 0, tp |-> 0, price |-> 0, prev |-> 0, type |-> "none"]
NoInput == [type |-> "none", price |-> 0, sl |-> 0, dist |-> 0]
NoDecision == [decision |-> "none", value |-> 0]

NoArgs == [ticket |-> 0, distance |-> 0]
NoRet == [op |-> "none", result |-> "none"]

\* Module load (lines 11-15); every position ticket of the run is open.
\* The state after import, with positions whose types are of `types`.
InitFor(types) ==
    /\ active_trailing_stop_jobs = <<>>
    /\ worker_running = FALSE
    /\ worker_thread = 0
    /\ positions = Tickets
    /\ tpc = [w \in Threads |-> "unstarted"]
    /\ tickets_to_process = [w \in Threads |-> <<>>]
    /\ tidx = [w \in Threads |-> 0]
    /\ trailing_distance = [w \in Threads |-> 0]
    /\ cpc = "idle"
    /\ apc = [a \in ApiThreads |-> "idle"]
    /\ aargs = [a \in ApiThreads |-> NoArgs]
    /\ aret = [a \in ApiThreads |-> NoRet]
    /\ close_tickets = [a \in ApiThreads |-> <<>>]
    /\ results = [a \in ApiThreads |-> <<>>]
    /\ it_used = [a \in ApiThreads |-> 0]
    /\ it_pos = [a \in ApiThreads |-> 0]
    /\ jobs_list = [a \in ApiThreads |-> <<>>]
    /\ instants = [a \in ApiThreads |-> {}]
    /\ exc = [w \in Threads |-> "none"]
    /\ failedAt = [w \in Threads |-> 0]
    /\ absentSeen = [w \in Threads |-> {}]
    /\ applySeen = [w \in Threads |-> {}]
    /\ ptype \in [Tickets -> types]
    /\ sl = [t \in Tickets |-> 0]
    /\ price = Sub * 11050
    /\ tp = [t \in Tickets |-> 0]
    /\ result = [w \in Threads |-> NoResult]
    /\ request = [w \in Threads |-> NoRequest]
    /\ cin = NoInput
    /\ cout = NoDecision

\* All positions are long.
Init == InitFor({"buy"})

(* ------------------------------ terminal ------------------------------- *)

\* What mt5.positions_get(ticket=t) can answer: the position, an empty tuple,
\* None (the terminal could not answer), or an exception of the binding.
PositionsGet(t) ==
    IF t \in positions THEN {"found", "none", "raise"}
                       ELSE {"empty", "none", "raise"}

\* a faulty test that takes every answer for a position
NotFoundNever(res) == FALSE

\* `positions is None or len(positions) == 0`
NotFound(res) == res \in {"none", "empty"}

\* A position closes in the terminal (stop hit, manual close, API close).
ClosePosition(t) ==
    /\ t \in positions
    /\ positions' = positions \ {t}
    /\ UNCHANGED <<regVars, ctlVars, thrVars, histVars, apiVars, listVars,
                   mktVars, calcVars, fnVars>>

\* The quotes of the trailed symbol: 1.1050 and 1.1051 at a point of 0.0001.
Quotes == {Sub * 11050, Sub * 11051}

\* The market moves: the symbol is quoted at p.
Quote(p) ==
    /\ p # price
    /\ price' = p
    /\ UNCHANGED <<regVars, positions, ptype, sl, tp, calcVars, fnVars, ctlVars,
                   thrVars, histVars, apiVars, listVars>>

(* ----------------- mutation of the registry by any thread -------------- *)

\* The entries of a registry content as get_active_worker_jobs_list shapes
\* them (line 166).
AsList(d) ==
    [i \in 1..Len(d) |->
        [position_ticket |-> d[i].ticket, trailing_distance |-> d[i].distance]]

IsPrefix(p, q) == Len(p) <= Len(q) /\ SubSeq(q, 1, Len(p)) = p

\* Of the contents cs, those a list call of thread a that has built l so far
\* can still return: a normal return yields exactly it_used entries.
Candidates(a, cs, l) ==
    {c \in cs : Len(c) = it_used[a] /\ IsPrefix(l, AsList(c))}

\* history: the registry becomes d while list calls are under way
Observe(d) ==
    [a \in ApiThreads |->
        IF apc[a] = "list" THEN Candidates(a, instants[a] \cup {d}, jobs_list[a])
                           ELSE instants[a]]

\* `active_trailing_stop_jobs[t] = v` (line 135).  A dictionary iterator keeps
\* its place: a new key is stored behind every existing entry.
RegPut(t, v) ==
    /\ active_trailing_stop_jobs' = Put(active_trailing_stop_jobs, t, v)
    /\ instants' = Observe(Put(active_trailing_stop_jobs, t, v))
    /\ UNCHANGED <<it_used, it_pos, jobs_list>>

\* a faulty `del` that leaves the dictionary as it is
RegDelNothing(t) == UNCHANGED <<regVars, listVars>>

\* `del active_trailing_stop_jobs[t]` (line 150).  The entry's slot is
\* emptied; an iterator that has passed it has passed one live entry less.
RegDel(t) ==
    /\ active_trailing_stop_jobs' = Del(active_trailing_stop_jobs, t)
    /\ instants' = Observe(Del(active_trailing_stop_jobs, t))
    /\ it_pos' = [a \in ApiThreads |->
                    IF apc[a] = "list" /\ IndexOf(active_trailing_stop_jobs, t) <= it_pos[a]
                    THEN it_pos[a] - 1 ELSE it_pos[a]]
    /\ UNCHANGED <<it_used, jobs_list>>

(* ------------------- start_worker / stop_worker ------------------------ *)

\* threading.Thread.is_alive(): started and its function has not returned
\* (normally or by an uncaught exception).
Alive(w) == tpc[w] \notin {"unstarted", "exited", "dead"}

\* The threads start_worker has created so far.
Spawned == {w \in Threads : tpc[w] # "unstarted"}

\* a faulty start_worker that creates a thread whatever worker_thread is
CanSpawnAlways == TRUE

\* `worker_thread is None or not worker_thread.is_alive()` (line 85)
CanSpawn == worker_thread = 0 \/ ~Alive(worker_thread)

\* start_worker(), lines 84-91.  Thread.start() returns once the new thread
\* is alive; the thread's function has not run yet ("spawned").  In the else
\* branch the call only logs its warning ("start_else").
start_worker(pool) ==
    /\ cpc = "idle"
    /\ IF CanSpawn
       THEN /\ pool \ Spawned # {}
            /\ LET n == CHOOSE w \in pool \ Spawned :
                            \A v \in pool \ Spawned : w <= v
               IN /\ tpc' = [tpc EXCEPT ![n] = "spawned"]
                  /\ worker_thread' = n
            /\ UNCHANGED cpc
       ELSE /\ cpc' = "start_else"
            /\ UNCHANGED <<tpc, worker_thread>>
    /\ UNCHANGED <<regVars, termVars, worker_running, tickets_to_process, tidx,
                   trailing_distance, histVars, apiVars, listVars>>

\* a faulty stop_worker that also empties the registry
stop_workerClearing ==
    /\ cpc = "idle"
    /\ IF worker_thread # 0 /\ Alive(worker_thread)
       THEN /\ worker_running' = FALSE
            /\ cpc' = "joining"
       ELSE /\ cpc' = "stop_else"
            /\ UNCHANGED worker_running
    /\ active_trailing_stop_jobs' = <<>>
    /\ UNCHANGED <<termVars, worker_thread, thrVars, histVars, apiVars,
                   listVars>>

\* stop_worker(), lines 98-101 and 107-108: clear the flag and start waiting
\* in join(timeout=10), or only log that nothing runs ("stop_else").
stop_worker ==
    /\ cpc = "idle"
    /\ IF worker_thread # 0 /\ Alive(worker_thread)
       THEN /\ worker_running' = FALSE
            /\ cpc' = "joining"
       ELSE /\ cpc' = "stop_else"
            /\ UNCHANGED worker_running
    /\ UNCHANGED <<regVars, termVars, worker_thread, thrVars, histVars,
                   apiVars, listVars>>

\* a faulty join without a timeout: it returns only when the thread ended
stop_joinNoTimeout ==
    /\ cpc = "joining"
    /\ worker_thread # 0 => ~Alive(worker_thread)
    /\ cpc' = "idle"
    /\ worker_thread' = 0
    /\ UNCHANGED <<regVars, termVars, worker_running, thrVars, histVars,
                   apiVars, listVars>>

\* stop_worker(), lines 102-106: join returns because the thread ended or
\* because the 10 seconds passed (no clock is modelled: the timeout may
\* expire whenever the thread is still alive); the handle is dropped.
stop_join ==
    /\ cpc = "joining"
    /\ cpc' = "idle"
    /\ worker_thread' = 0
    /\ UNCHANGED <<regVars, termVars, worker_running, thrVars, histVars,
                   apiVars, listVars>>

\* lines 91 and 108: the warning is logged and the call returns
warned ==
    /\ cpc \in {"start_else", "stop_else"}
    /\ cpc' = "idle"
    /\ UNCHANGED <<regVars, termVars, worker_running, worker_thread, thrVars,
                   histVars, apiVars, listVars>>

(* --------------------- trailing_stop_worker_function ------------------- *)

\* position_ticket of the for loop (line 31)
Ticket(w) == tickets_to_process[w][tidx[w]]

\* the thread-local effect of going to the next ticket of the for loop
NextTicket(w) ==
    /\ tpc' = [tpc EXCEPT ![w] = "for"]
    /\ tidx' = [tidx EXCEPT ![w] = @ + 1]
    /\ trailing_distance' = [trailing_distance EXCEPT ![w] = 0]
    /\ UNCHANGED tickets_to_process

\* the thread-local effect of staying with the ticket, at pc
Stay(w, pc) ==
    /\ tpc' = [tpc EXCEPT ![w] = pc]
    /\ UNCHANGED <<tickets_to_process, tidx, trailing_distance>>

\* a faulty loop whose try has no except: the exception e ends the thread
RaiseUncaught(w, e) ==
    /\ tpc' = [tpc EXCEPT ![w] = "dead"]
    /\ exc' = [exc EXCEPT ![w] = e]
    /\ UNCHANGED <<tickets_to_process, tidx, trailing_distance>>

\* An exception e raised inside the try (lines 35-60) reaches
\* `except Exception as e:` (line 63).
Raise(w, e) ==
    /\ tpc' = [tpc EXCEPT ![w] = "except"]
    /\ exc' = [exc EXCEPT ![w] = e]
    /\ UNCHANGED <<tickets_to_process, tidx, trailing_distance>>

\* history: the processing of the ticket at tidx[w] failed
Failure(w) == [failedAt EXCEPT ![w] = IF @ = 0 THEN tidx[w] ELSE @]

\* lines 22-24: the thread's function begins and sets the flag
W_Enter(w) ==
    /\ tpc[w] = "spawned"
    /\ worker_running' = TRUE
    /\ tpc' = [tpc EXCEPT ![w] = "while"]
    /\ UNCHANGED <<regVars, termVars, worker_thread, cpc,
                   tickets_to_process, tidx, trailing_distance, histVars,
                   apiVars, listVars>>

\* line 26 (and 78): `while worker_running:`
W_While(w) ==
    /\ tpc[w] = "while"
    /\ tpc' = [tpc EXCEPT ![w] = IF worker_running THEN "snapshot" ELSE "exited"]
    /\ UNCHANGED <<regVars, termVars, ctlVars, tickets_to_process, tidx,
                   trailing_distance, histVars, apiVars, listVars>>

\* line 28: tickets_to_process = list(active_trailing_stop_jobs.keys())
W_Snapshot(w) ==
    /\ tpc[w] = "snapshot"
    /\ tickets_to_process' =
           [tickets_to_process EXCEPT ![w] = Keys(active_trailing_stop_jobs)]
    /\ tidx' = [tidx EXCEPT ![w] = 1]
    /\ tpc' = [tpc EXCEPT ![w] = "for"]
    /\ UNCHANGED <<regVars, termVars, ctlVars, trailing_distance, histVars,
                   apiVars, listVars>>

\* lines 31 and 33: the next ticket of the snapshot, and whether it still is
\* a key of the registry; after the last ticket the cycle is over and the
\* thread sleeps (line 76).
W_For(w) ==
    /\ tpc[w] = "for"
    /\ IF tidx[w] > Len(tickets_to_process[w])
       THEN /\ tpc' = [tpc EXCEPT ![w] = "sleep"]
            /\ tickets_to_process' = [tickets_to_process EXCEPT ![w] = <<>>]
            /\ tidx' = [tidx EXCEPT ![w] = 0]
            /\ absentSeen' = [absentSeen EXCEPT ![w] = {}]
            /\ applySeen' = [applySeen EXCEPT ![w] = {}]
            /\ failedAt' = [failedAt EXCEPT ![w] = 0]
            /\ UNCHANGED trailing_distance
       ELSE /\ IF Has(active_trailing_stop_jobs, Ticket(w))
               THEN Stay(w, "read")
               ELSE NextTicket(w)
            /\ UNCHANGED <<absentSeen, applySeen, failedAt>>
    /\ UNCHANGED <<regVars, termVars, ctlVars, exc, apiVars, listVars>>

\* line 34: trailing_distance = active_trailing_stop_jobs[position_ticket],
\* outside the try: a KeyError ends the thread.
W_Read(w) ==
    /\ tpc[w] = "read"
    /\ IF Has(active_trailing_stop_jobs, Ticket(w))
       THEN /\ trailing_distance' = [trailing_distance EXCEPT
                     ![w] = Get(active_trailing_stop_jobs, Ticket(w))]
            /\ tpc' = [tpc EXCEPT ![w] = "before"]
            /\ UNCHANGED exc
       ELSE /\ tpc' = [tpc EXCEPT ![w] = "dead"]
            /\ exc' = [exc EXCEPT ![w] = "KeyError"]
            /\ UNCHANGED trailing_distance
    /\ UNCHANGED <<regVars, termVars, ctlVars, tickets_to_process, tidx,
                   absentSeen, applySeen, failedAt, apiVars, listVars>>

\* The loop's position lookup at `here` ("before": lines 37-41, "after":
\* lines 56-59).  A lookup that finds nothing calls
\* remove_trailing_stop_job_from_worker, whose membership test (line 149) is
\* taken here: a closed position stays closed and the terminal may fail at
\* any time, so the answer could as well have come right before the test.
W_Lookup(w, here, found) ==
    /\ tpc[w] = here
    /\ \E res \in PositionsGet(Ticket(w)) :
          IF res = "raise"
          THEN /\ Raise(w, "mt5")
               /\ failedAt' = Failure(w)
               /\ UNCHANGED <<absentSeen, applySeen>>
          ELSE IF NotFound(res)
          THEN /\ IF Has(active_trailing_stop_jobs, Ticket(w))
                  THEN Stay(w, "remove")
                  ELSE NextTicket(w)
               /\ failedAt' = IF res = "none" THEN Failure(w) ELSE failedAt
               /\ absentSeen' = IF Ticket(w) \in positions THEN absentSeen
                                ELSE [absentSeen EXCEPT ![w] = @ \cup {Ticket(w)}]
               /\ UNCHANGED applySeen
               /\ UNCHANGED exc
          ELSE /\ IF found = "for" THEN NextTicket(w) ELSE Stay(w, found)
               /\ UNCHANGED <<failedAt, exc, absentSeen, applySeen>>
    /\ UNCHANGED <<regVars, termVars, ctlVars, apiVars, listVars>>

\* lines 36-41
W_CheckBefore(w) == W_Lookup(w, "before", "apply")

\* lines 54-59
W_CheckAfter(w) == W_Lookup(w, "after", "for")

\* What apply_trailing_stop (lib.py 249-378) can return to the loop: None
\* (position, tick or symbol info missing, unknown type, order_send
\* refused), a "No SL update needed" message, the accepted order's result,
\* or an exception of the binding.
ApplyResults(t) ==
    IF t \in positions THEN {"None", "no update", "applied", "raise"}
                       ELSE {"None", "raise"}

\* lines 43-52: result = apply_trailing_stop(position_ticket, trailing_distance)
W_Apply(w) ==
    /\ tpc[w] = "apply"
    /\ \E res \in ApplyResults(Ticket(w)) :
          IF res = "raise"
          THEN /\ Raise(w, "mt5")
               /\ failedAt' = Failure(w)
          ELSE /\ tpc' = [tpc EXCEPT ![w] = "after"]
               /\ trailing_distance' = [trailing_distance EXCEPT ![w] = 0]
               /\ failedAt' = IF res = "None" THEN Failure(w) ELSE failedAt
               /\ UNCHANGED <<tickets_to_process, tidx, exc>>
    /\ UNCHANGED <<regVars, termVars, ctlVars, absentSeen, applySeen, apiVars, listVars>>

\* a faulty removal by the loop that deletes the oldest job of the registry
W_RemoveOldest(w) ==
    /\ tpc[w] = "remove"
    /\ IF active_trailing_stop_jobs # <<>>
       THEN /\ RegDel(active_trailing_stop_jobs[1].ticket)
            /\ NextTicket(w)
            /\ UNCHANGED <<failedAt, exc>>
       ELSE /\ Raise(w, "KeyError")
            /\ failedAt' = Failure(w)
            /\ UNCHANGED <<regVars, listVars>>
    /\ UNCHANGED <<termVars, ctlVars, absentSeen, applySeen, apiVars>>

\* lines 40 and 59, in remove_trailing_stop_job_from_worker line 150:
\* del active_trailing_stop_jobs[position_ticket]; its KeyError is raised
\* inside the loop's try.  After the removal the for loop goes on (lines 41, 60).
W_Remove(w) ==
    /\ tpc[w] = "remove"
    /\ IF Has(active_trailing_stop_jobs, Ticket(w))
       THEN /\ RegDel(Ticket(w))
            /\ NextTicket(w)
            /\ UNCHANGED <<failedAt, exc>>
       ELSE /\ Raise(w, "KeyError")
            /\ failedAt' = Failure(w)
            /\ UNCHANGED <<regVars, listVars>>
    /\ UNCHANGED <<termVars, ctlVars, absentSeen, applySeen, apiVars>>

\* lines 63-66: the handler logs the exception; the for loop goes on
W_Except(w) ==
    /\ tpc[w] = "except"
    /\ NextTicket(w)
    /\ exc' = [exc EXCEPT ![w] = "none"]
    /\ UNCHANGED <<regVars, termVars, ctlVars, absentSeen, applySeen, failedAt,
                   apiVars, listVars>>

\* line 76: time.sleep(check_interval_seconds) returns
W_Sleep(w) ==
    /\ tpc[w] = "sleep"
    /\ tpc' = [tpc EXCEPT ![w] = "while"]
    /\ UNCHANGED <<regVars, termVars, ctlVars, tickets_to_process, tidx,
                   trailing_distance, histVars, apiVars, listVars>>

(* ------------------ apply_trailing_stop, step by step ------------------ *)
(* For the specifications that follow quotes and stops, the call of line   *)
(* 44 is taken in two steps: everything up to the request (lib.py 264-365) *)
(* and mt5.order_send with what follows it (lib.py 368-378).               *)

\* a faulty return that goes on to order_send
ReturnedToSend(w, res) ==
    /\ result' = [result EXCEPT ![w] = res]
    /\ failedAt' = IF res.ret = "None" THEN Failure(w) ELSE failedAt
    /\ Stay(w, "send")
    /\ UNCHANGED <<request, exc>>

\* the thread-local effect of apply_trailing_stop returning res
Returned(w, res) ==
    /\ result' = [result EXCEPT ![w] = res]
    /\ request' = [request EXCEPT ![w] = NoRequest]
    /\ tpc' = [tpc EXCEPT ![w] = "after"]
    /\ trailing_distance' = [trailing_distance EXCEPT ![w] = 0]
    /\ failedAt' = IF res.ret = "None" THEN Failure(w) ELSE failedAt
    /\ UNCHANGED <<tickets_to_process, tidx, exc>>

\* what mt5.symbol_info_tick and mt5.symbol_info can answer
Lookups == {"ok", "none"}

\* lib.py 264-365: the position, the tick, the symbol info, the new stop
W_Calc(w) ==
    /\ tpc[w] = "apply"
    /\ \E res \in PositionsGet(Ticket(w)), tick \in Lookups, info \in Lookups :
          IF res = "raise"
          THEN /\ Raise(w, "mt5")
               /\ failedAt' = Failure(w)
               /\ UNCHANGED <<result, request>>
          ELSE IF NotFound(res)
          THEN Returned(w, [ret |-> "None", why |-> "position"])
          ELSE IF tick = "none"
          THEN Returned(w, [ret |-> "None", why |-> "tick"])
          ELSE IF info = "none"
          THEN Returned(w, [ret |-> "None", why |-> "info"])
          ELSE LET t == Ticket(w)
                   d == computeNewStop(ptype[t], price, sl[t],
                                       trailing_distance[w] * Sub)
               IN IF d.decision = "Unknown"
                  THEN Returned(w, [ret |-> "None", why |-> "type"])
                  ELSE IF d.decision # "NewStop"
                  THEN Returned(w, [ret |-> "message", why |-> d.decision])
                  ELSE /\ request' = [request EXCEPT ![w] =
                                         [sl |-> d.value, tp |-> tp[t],
                                          price |-> price, prev |-> sl[t],
                                          type |-> ptype[t]]]
                       /\ Stay(w, "send")
                       /\ UNCHANGED <<result, failedAt, exc>>
    /\ applySeen' = [applySeen EXCEPT ![w] = @ \cup {Ticket(w)}]
    /\ UNCHANGED <<regVars, positions, mktVars, fnVars, ctlVars, absentSeen,
                   apiVars, listVars>>

\* What mt5.order_send can answer for ticket t: the stop is set
\* (TRADE_RETCODE_DONE), the request is refused (None or another retcode:
\* always so for a closed position), or an exception of the binding.
OrderSend(t) ==
    IF t \in positions THEN {"done", "refused", "raise"}
                       ELSE {"refused", "raise"}

\* lib.py 368-378: mt5.order_send(request)
W_Send(w) ==
    /\ tpc[w] = "send"
    /\ \E res \in OrderSend(Ticket(w)) :
          IF res = "raise"
          THEN /\ Raise(w, "mt5")
               /\ failedAt' = Failure(w)
               /\ request' = [request EXCEPT ![w] = NoRequest]
               /\ UNCHANGED <<result, sl, tp>>
          ELSE IF res = "refused"
          THEN /\ Returned(w, [ret |-> "None", why |-> "send"])
               /\ UNCHANGED <<sl, tp>>
          ELSE /\ Returned(w, [ret |-> "dict", why |-> "done"])
               /\ sl' = [sl EXCEPT ![Ticket(w)] = request[w].sl]
               /\ tp' = [tp EXCEPT ![Ticket(w)] = request[w].tp]
    /\ UNCHANGED <<regVars, positions, ptype, price, fnVars, ctlVars,
                   absentSeen, applySeen, apiVars, listVars>>

\* what a caller of the modify_sl_tp endpoint sends as sl and as tp
StopInputs == {Sub * 10900}
TakeProfits == {Sub * 11100, Sub * 11200}

\* position.py 305-317: modify_sl_tp_endpoint sends a TRADE_ACTION_SLTP
\* request with the caller's sl and tp; the terminal accepts it for an open
\* position.
A_ModifySlTp(t, s, p) ==
    /\ t \in positions
    /\ sl' = [sl EXCEPT ![t] = s]
    /\ tp' = [tp EXCEPT ![t] = p]
    /\ UNCHANGED <<regVars, positions, ptype, price, calcVars, fnVars,
                   ctlVars, thrVars, histVars, apiVars, listVars>>

\* The calculator alone, called with arguments of the bounded sets.
C_Compute(type, current_price, position_sl, dist) ==
    /\ cin = NoInput
    /\ cin' = [type |-> type, price |-> current_price, sl |-> position_sl,
               dist |-> dist]
    /\ cout' = computeNewStop(type, current_price, position_sl, dist)
    /\ UNCHANGED <<regVars, positions, mktVars, calcVars, ctlVars, thrVars,
                   histVars, apiVars, listVars>>

(* ------------------------- registry calls ------------------------------ *)
(* A caller thread is "idle" (between requests), inside a registry call,   *)
(* or "done": the call has returned (or raised) and the endpoint has not   *)
(* answered yet (position.py 526-548, 592-601, 644-650).                   *)

Return(a, op, res) ==
    /\ apc' = [apc EXCEPT ![a] = "done"]
    /\ aret' = [aret EXCEPT ![a] = [op |-> op, result |-> res]]

Goto(a, pc) ==
    /\ apc' = [apc EXCEPT ![a] = pc]
    /\ UNCHANGED aret

\* add_trailing_stop_job_to_worker(t, d), lines 110-125: the position lookup.
A_Add(a, t, d) ==
    /\ apc[a] = "idle"
    /\ aargs' = [aargs EXCEPT ![a] = Entry(t, d)]
    /\ \E res \in PositionsGet(t) :
          IF res = "raise" THEN Return(a, "add", "raised")
          ELSE IF NotFound(res) THEN Return(a, "add", "False")
          ELSE Goto(a, "add_in")
    /\ UNCHANGED <<regVars, termVars, ctlVars, thrVars, histVars, listVars,
                   closeVars>>

\* line 128: `if position_ticket in active_trailing_stop_jobs:`
A_AddIn(a) ==
    /\ apc[a] = "add_in"
    /\ Goto(a, IF Has(active_trailing_stop_jobs, aargs[a].ticket)
               THEN "add_log" ELSE "add_write")
    /\ UNCHANGED <<regVars, termVars, ctlVars, thrVars, histVars, listVars, aargs,
                   closeVars>>

\* line 129: the log line reads active_trailing_stop_jobs[position_ticket]
A_AddLog(a) ==
    /\ apc[a] = "add_log"
    /\ IF Has(active_trailing_stop_jobs, aargs[a].ticket)
       THEN Goto(a, "add_write")
       ELSE Return(a, "add", "raised")
    /\ UNCHANGED <<regVars, termVars, ctlVars, thrVars, histVars, listVars, aargs,
                   closeVars>>

\* lines 135-137: store the distance, return True
A_AddWrite(a) ==
    /\ apc[a] = "add_write"
    /\ RegPut(aargs[a].ticket, aargs[a].distance)
    /\ Return(a, "add", "True")
    /\ UNCHANGED <<termVars, ctlVars, thrVars, histVars, aargs,
                   closeVars>>

\* remove_trailing_stop_job_from_worker(t), lines 149 and 153-155
A_Remove(a, t) ==
    /\ apc[a] = "idle"
    /\ aargs' = [aargs EXCEPT ![a] = Entry(t, 0)]
    /\ IF Has(active_trailing_stop_jobs, t)
       THEN Goto(a, "remove_del")
       ELSE Return(a, "remove", "False")
    /\ UNCHANGED <<regVars, termVars, ctlVars, thrVars, histVars, listVars,
                   closeVars>>

\* lines 150-152: del active_trailing_stop_jobs[position_ticket], return True
A_RemoveDel(a) ==
    /\ apc[a] = "remove_del"
    /\ IF Has(active_trailing_stop_jobs, aargs[a].ticket)
       THEN /\ RegDel(aargs[a].ticket)
            /\ Return(a, "remove", "True")
       ELSE /\ Return(a, "remove", "raised")
            /\ UNCHANGED <<regVars, listVars>>
    /\ UNCHANGED <<termVars, ctlVars, thrVars, histVars, aargs,
                   closeVars>>

\* get_active_worker_jobs_list(), lines 165-168: the comprehension takes an
\* iterator of active_trailing_stop_jobs.items()
A_List(a) ==
    /\ apc[a] = "idle"
    /\ Goto(a, "list")
    /\ it_used' = [it_used EXCEPT ![a] = Len(active_trailing_stop_jobs)]
    /\ it_pos' = [it_pos EXCEPT ![a] = 0]
    /\ jobs_list' = [jobs_list EXCEPT ![a] = <<>>]
    /\ instants' = [instants EXCEPT ![a] = {active_trailing_stop_jobs}]
    /\ UNCHANGED <<regVars, termVars, ctlVars, thrVars, histVars, aargs,
                   closeVars>>

\* lines 165-170: one next() of the iterator.  A changed size, or an entry
\* found after it_used entries were produced, is a RuntimeError; otherwise the
\* next live entry is appended, or the list is complete and returned.
A_ListNext(a) ==
    /\ apc[a] = "list"
    /\ IF Len(active_trailing_stop_jobs) # it_used[a]
          \/ (it_pos[a] < Len(active_trailing_stop_jobs)
              /\ Len(jobs_list[a]) = it_used[a])
       THEN /\ Return(a, "list", "raised")
            /\ jobs_list' = [jobs_list EXCEPT ![a] = <<>>]
            /\ instants' = [instants EXCEPT ![a] = {}]
            /\ it_pos' = [it_pos EXCEPT ![a] = 0]
            /\ it_used' = [it_used EXCEPT ![a] = 0]
       ELSE IF it_pos[a] < Len(active_trailing_stop_jobs)
       THEN LET l == Append(jobs_list[a],
                            AsList(active_trailing_stop_jobs)[it_pos[a] + 1])
            IN /\ jobs_list' = [jobs_list EXCEPT ![a] = l]
               /\ it_pos' = [it_pos EXCEPT ![a] = @ + 1]
               /\ instants' = [instants EXCEPT ![a] = Candidates(a, @, l)]
               /\ UNCHANGED <<apc, aret, it_used>>
       ELSE /\ Return(a, "list", "returned")
            /\ it_pos' = [it_pos EXCEPT ![a] = 0]
            /\ it_used' = [it_used EXCEPT ![a] = 0]
            /\ UNCHANGED <<jobs_list, instants>>
    /\ UNCHANGED <<regVars, termVars, ctlVars, thrVars, histVars, aargs,
                   closeVars>>

\* The endpoint answers the request; the thread is free for the next one.
A_Done(a) ==
    /\ apc[a] = "done"
    /\ apc' = [apc EXCEPT ![a] = "idle"]
    /\ aargs' = [aargs EXCEPT ![a] = NoArgs]
    /\ aret' = [aret EXCEPT ![a] = NoRet]
    /\ jobs_list' = [jobs_list EXCEPT ![a] = <<>>]
    /\ instants' = [instants EXCEPT ![a] = {}]
    /\ UNCHANGED <<regVars, termVars, ctlVars, thrVars, histVars, it_used, it_pos,
                   closeVars>>

(* ------------------------ the close endpoints -------------------------- *)

\* close_position_endpoint(ticket = t), position.py 88-94: the lookup
A_Close(a, t) ==
    /\ apc[a] = "idle"
    /\ aargs' = [aargs EXCEPT ![a] = Entry(t, 0)]
    /\ \E res \in PositionsGet(t) :
          IF res = "raise" THEN Return(a, "close", "raised")
          ELSE IF NotFound(res) THEN Return(a, "close", "not_found")
          ELSE Goto(a, "close_send")
    /\ UNCHANGED <<regVars, termVars, ctlVars, thrVars, histVars, listVars,
                   closeVars>>

\* a faulty endpoint that answers after the close without removing the job
A_CloseSendOnly(a) ==
    /\ apc[a] = "close_send"
    /\ positions' = positions \ {aargs[a].ticket}
    /\ Return(a, "close", "closed")
    /\ UNCHANGED <<regVars, mktVars, calcVars, fnVars, ctlVars, thrVars,
                   histVars, listVars, aargs, closeVars>>

\* position.py 112-115 and lib.py 20-73: close_position asks for the tick
\* and sends the closing deal; without a tick, or when the terminal refuses,
\* the endpoint answers 400, and an exception of the binding makes it answer
\* 500.
A_CloseSend(a) ==
    /\ apc[a] = "close_send"
    /\ \E tick \in Lookups, res \in OrderSend(aargs[a].ticket) :
          IF tick = "none" \/ ptype[aargs[a].ticket] \notin {"buy", "sell"}
          THEN /\ Return(a, "close", "failed")
               /\ UNCHANGED positions
          ELSE IF res = "raise"
          THEN /\ Return(a, "close", "raised")
               /\ UNCHANGED positions
          ELSE IF res = "refused"
          THEN /\ Return(a, "close", "failed")
               /\ UNCHANGED positions
          ELSE /\ positions' = positions \ {aargs[a].ticket}
               /\ Goto(a, "close_in")
    /\ UNCHANGED <<regVars, mktVars, calcVars, fnVars, ctlVars, thrVars,
                   histVars, listVars, aargs, closeVars>>

\* position.py 118-119 and line 149 of remove_trailing_stop_job_from_worker
A_CloseIn(a) ==
    /\ apc[a] = "close_in"
    /\ IF Has(active_trailing_stop_jobs, aargs[a].ticket)
       THEN Goto(a, "close_del")
       ELSE Return(a, "close", "closed")
    /\ UNCHANGED <<regVars, termVars, ctlVars, thrVars, histVars, listVars,
                   aargs, closeVars>>

\* lines 150-152 of remove_trailing_stop_job_from_worker, then position.py
\* 122; a KeyError of the del makes the endpoint answer 500 (line 124)
A_CloseDel(a) ==
    /\ apc[a] = "close_del"
    /\ IF Has(active_trailing_stop_jobs, aargs[a].ticket)
       THEN /\ RegDel(aargs[a].ticket)
            /\ Return(a, "close", "closed")
       ELSE /\ Return(a, "close", "raised")
            /\ UNCHANGED <<regVars, listVars>>
    /\ UNCHANGED <<termVars, ctlVars, thrVars, histVars, aargs, closeVars>>

\* the tickets of set S in ascending order (the rows of positions_df)
RECURSIVE Ascending(_)
Ascending(S) ==
    IF S = {} THEN <<>>
    ELSE LET m == CHOOSE x \in S : \A y \in S : x <= y
         IN <<m>> \o Ascending(S \ {m})

\* The OrderSendResult of an accepted deal for ticket t.  Its fields are
\* retcode, deal, order, volume, price, bid, ask, comment, request_id,
\* retcode_external and request; the ticket is a field of request only
\* (order.py 177-198 goes through result.deal to find the position).
OrderSendResult(t) == [retcode |-> "done", request |-> [position |-> t]]

\* res._asdict().get(key): the field, or None (0) when there is none
AsDictGet(res, key) == IF key \in DOMAIN res THEN res[key] ELSE 0

\* position.py 217: closed_tickets
closed_tickets(rs) == [i \in 1..Len(rs) |-> AsDictGet(rs[i], "position")]

\* the thread-local effect of close_all_positions_endpoint returning
ReturnAll(a, res) ==
    /\ Return(a, "close_all", res)
    /\ close_tickets' = [close_tickets EXCEPT ![a] = <<>>]
    /\ results' = [results EXCEPT ![a] = <<>>]

\* close_all_positions_endpoint, position.py 208-212 and lib.py 86-112: the
\* open positions that pass the caller's filters
A_CloseAll(a) ==
    /\ apc[a] = "idle"
    /\ \E sel \in SUBSET positions :
          IF sel = {}
          THEN ReturnAll(a, "none")
          ELSE /\ close_tickets' = [close_tickets EXCEPT ![a] = Ascending(sel)]
               /\ Goto(a, "closeall_send")
               /\ UNCHANGED results
    /\ UNCHANGED <<regVars, termVars, ctlVars, thrVars, histVars, listVars,
                   aargs>>

\* lib.py 115-122: close_position for the next row; position.py 213-217
\* when the rows are through
A_CloseAllSend(a) ==
    /\ apc[a] = "closeall_send"
    /\ IF close_tickets[a] = <<>>
       THEN /\ IF results[a] = <<>>
               THEN ReturnAll(a, "none")
               ELSE /\ close_tickets' = [close_tickets EXCEPT
                                           ![a] = closed_tickets(results[a])]
                    /\ Goto(a, "closeall_rm")
                    /\ UNCHANGED results
            /\ UNCHANGED positions
       ELSE LET t == Head(close_tickets[a])
            IN \E tick \in Lookups, res \in OrderSend(t) :
                  IF tick = "none" \/ res = "refused"
                  THEN /\ close_tickets' = [close_tickets EXCEPT ![a] = Tail(@)]
                       /\ UNCHANGED <<positions, results, apc, aret>>
                  ELSE IF res = "raise"
                  THEN /\ ReturnAll(a, "raised")
                       /\ UNCHANGED positions
                  ELSE /\ positions' = positions \ {t}
                       /\ results' = [results EXCEPT
                                         ![a] = Append(@, OrderSendResult(t))]
                       /\ close_tickets' = [close_tickets EXCEPT ![a] = Tail(@)]
                       /\ UNCHANGED <<apc, aret>>
    /\ UNCHANGED <<regVars, mktVars, calcVars, fnVars, ctlVars, thrVars,
                   histVars, listVars, aargs>>

\* position.py 218-226: remove_trailing_stop_job_from_worker for every
\* element of closed_tickets, then the answer
A_CloseAllRemove(a) ==
    /\ apc[a] = "closeall_rm"
    /\ IF close_tickets[a] = <<>>
       THEN /\ ReturnAll(a, "closed")
            /\ UNCHANGED <<regVars, listVars>>
       ELSE /\ IF Has(active_trailing_stop_jobs, Head(close_tickets[a]))
               THEN RegDel(Head(close_tickets[a]))
               ELSE UNCHANGED <<regVars, listVars>>
            /\ close_tickets' = [close_tickets EXCEPT ![a] = Tail(@)]
            /\ UNCHANGED <<apc, aret, results>>
    /\ UNCHANGED <<termVars, ctlVars, thrVars, histVars, aargs>>

(* --------------------------- specifications ---------------------------- *)

\* The hosting thread, creating worker threads out of pool.
Controller(pool) ==
    \/ start_worker(pool)
    \/ stop_worker
    \/ stop_join
    \/ warned

\* Worker thread w.
Loop(w) ==
    \/ W_Enter(w) \/ W_While(w) \/ W_Snapshot(w) \/ W_For(w) \/ W_Read(w)
    \/ W_CheckBefore(w) \/ W_Apply(w) \/ W_CheckAfter(w) \/ W_Remove(w)
    \/ W_Except(w) \/ W_Sleep(w)

\* Caller thread a enabling and disabling trailing stops of tickets.
Caller(a, tickets, dists) ==
    \/ \E t \in tickets, d \in dists : A_Add(a, t, d)
    \/ A_AddIn(a) \/ A_AddLog(a) \/ A_AddWrite(a)
    \/ \E t \in tickets : A_Remove(a, t)
    \/ A_RemoveDel(a)
    \/ A_Done(a)

\* Caller thread a listing the jobs.
Lister(a) == A_List(a) \/ A_ListNext(a) \/ A_Done(a)

\* The terminal closing positions.
Terminal == \E t \in Tickets : ClosePosition(t)

\* One supervision loop, one caller thread, the terminal.
Next ==
    \/ Controller({1})
    \/ Loop(1)
    \/ Caller(1, Tickets, Distances)
    \/ Terminal

Spec == Init /\ [][Next]_vars

\* Start and stop: every worker thread of a run, and one caller thread
\* keeping one job of an open position.
NextLife ==
    \/ Controller(Threads)
    \/ \E w \in Threads : Loop(w)
    \/ Caller(1, {1}, {50})

SpecLife == Init /\ [][NextLife]_vars

\* The controller and the loops, with one request that enables the trailing
\* stop of ticket 1 (routes/position.py 507-548; the ticket has no job
\* before, so line 129 is not reached), so that a loop has a job to be busy
\* with while stop_worker waits for it.
NextStop ==
    \/ Controller(Threads)
    \/ \E w \in Threads : Loop(w)
    \/ A_Add(1, 1, 50) \/ A_AddIn(1) \/ A_AddWrite(1)

\* With the hosting thread's join returning in the end: the thread is
\* scheduled, and join(timeout=10) needs nothing from anyone else.
SpecStop == Init /\ [][NextStop]_vars /\ WF_vars(stop_join)

\* The registry under concurrent callers (no loop running).
NextReg ==
    \/ \E a \in ApiThreads : Caller(a, Tickets, Distances)
    \/ Terminal

SpecReg == Init /\ [][NextReg]_vars

\* A listing caller beside a mutating caller.
NextList ==
    \/ Caller(1, Tickets, Distances)
    \/ Lister(2)

SpecList == Init /\ [][NextList]_vars

\* Worker thread w, its call of apply_trailing_stop step by step.
LoopTrail(w) ==
    \/ W_Enter(w) \/ W_While(w) \/ W_Snapshot(w) \/ W_For(w) \/ W_Read(w)
    \/ W_CheckBefore(w) \/ W_Calc(w) \/ W_Send(w) \/ W_CheckAfter(w)
    \/ W_Remove(w) \/ W_Except(w) \/ W_Sleep(w)

\* One long position without a stop, quoted at 1.1050 first (point 0.0001),
\* one supervision loop, one caller thread trailing it at 100 points or,
\* by mistake, at none.
NextTrail ==
    \/ Controller({1})
    \/ LoopTrail(1)
    \/ Caller(1, {1}, {0, 100})
    \/ ClosePosition(1)
    \/ \E p \in Quotes : Quote(p)

SpecTrail == Init /\ [][NextTrail]_vars

Points == MinPoint..MaxPoint

\* The calculator for every type, quote, stop and distance of the bounds.
NextCalc ==
    \E type \in {"buy", "sell", "other"}, p \in Points,
       s \in {0} \cup Points, dist \in (0 - Sub)..MaxDist :
          C_Compute(type, p * Sub, s * Sub, dist)

SpecCalc == Init /\ [][NextCalc]_vars

\* Caller thread a closing positions through the endpoints.
Closer(a, tickets) ==
    \/ \E t \in tickets : A_Close(a, t)
    \/ A_CloseSend(a) \/ A_CloseIn(a) \/ A_CloseDel(a)
    \/ A_CloseAll(a) \/ A_CloseAllSend(a) \/ A_CloseAllRemove(a)

\* One supervision loop beside one caller thread that enables trailing
\* stops and closes positions.
NextClose ==
    \/ Controller({1})
    \/ Loop(1)
    \/ Caller(1, Tickets, {50})
    \/ Closer(1, Tickets)

SpecClose == Init /\ [][NextClose]_vars

\* One supervision loop trailing one position of any type at 100 points.
InitSide == InitFor({"buy", "sell", "other"})

NextSide ==
    \/ Controller({1})
    \/ LoopTrail(1)
    \/ Caller(1, {1}, {100})

SpecSide == InitSide /\ [][NextSide]_vars

\* One supervision loop trailing one position at 100 points beside a caller
\* of the modify_sl_tp endpoint.
NextTp ==
    \/ Controller({1})
    \/ LoopTrail(1)
    \/ Caller(1, {1}, {100})
    \/ \E s \in StopInputs, p \in TakeProfits : A_ModifySlTp(1, s, p)

SpecTp == Init /\ [][NextTp]_vars

\* One supervision loop trailing one position at 100 points beside a caller
\* of the modify_sl_tp endpoint who sets the stop to 1.1000, above the stop
\* of 1.0950 the loop computes at the price of 1.1050.
StopsAbove == {Sub * 11000}

NextRatchet ==
    \/ Controller({1})
    \/ LoopTrail(1)
    \/ Caller(1, {1}, {100})
    \/ \E s \in StopsAbove : A_ModifySlTp(1, s, 0)

SpecRatchet == Init /\ [][NextRatchet]_vars

\* One supervision loop that is scheduled again and again (the thread is
\* never denied the interpreter for ever, and every call of the terminal
\* and every sleep returns), beside one caller thread enabling and disabling
\* the trailing stops of two open positions.
NextStarve ==
    \/ Controller({1})
    \/ Loop(1)
    \/ Caller(1, Tickets, {50})

SpecStarve == Init /\ [][NextStarve]_vars /\ WF_vars(Loop(1))

(* ------------------------------ properties ----------------------------- *)

\* stop_worker has been called for the alive thread w: the call is waiting in
\* join, or it has returned and dropped the handle.
Signalled(w) == Alive(w) /\ (worker_thread # w \/ cpc = "joining")

\* The controller's state is Running: it holds the handle of an alive thread.
Running == worker_thread # 0 /\ Alive(worker_thread)

\* Thread w ends its cycle in this step (the for loop is exhausted).
CycleEnds(w) == tpc[w] = "for" /\ tpc'[w] = "sleep"

\* C1: a job does not outlive its position by more than one cycle: when a
\* cycle ends, no ticket whose closed position a lookup of the cycle did not
\* find is still a key of the registry.
C1_JobGoneWithPosition ==
    [][\A w \in Threads :
          CycleEnds(w) =>
             \A t \in absentSeen[w] : ~Has(active_trailing_stop_jobs', t)]_vars

\* C2: a started loop that nobody has stopped never terminates: a thread
\* ceases to be alive only after stop_worker was called for it.
C2_LoopNeverTerminates ==
    [][\A w \in Threads :
          (Alive(w) /\ tpc'[w] \in {"exited", "dead"}) => Signalled(w)]_vars

\* where the loop is when it is inside the try of one ticket (lines 35-66)
InTry(pc) == pc \in {"before", "apply", "send", "after", "remove", "except"}

\* C3: a failure inside the processing of one ticket (a lookup or calculator
\* call that fails or raises, a refused modification) neither ends the cycle
\* nor skips a ticket: no step inside the try ends the thread or touches the
\* snapshot, the loop leaves ticket i only for ticket i + 1, it passes over a
\* ticket only if the ticket is no longer in the registry, and the cycle ends
\* only behind the last ticket of the snapshot.
C3_FailureIsolated ==
    [][\A w \in Threads :
          /\ (InTry(tpc[w]) /\ tpc'[w] # tpc[w]) =>
                /\ tpc'[w] = "for" \/ InTry(tpc'[w])
                /\ tickets_to_process'[w] = tickets_to_process[w]
                /\ tidx'[w] = IF tpc'[w] = "for" THEN tidx[w] + 1 ELSE tidx[w]
          /\ (tpc[w] = "for" /\ tpc'[w] = "for" /\ tidx'[w] # tidx[w]) =>
                /\ ~Has(active_trailing_stop_jobs, Ticket(w))
                /\ tidx'[w] = tidx[w] + 1
                /\ tickets_to_process'[w] = tickets_to_process[w]
          /\ (tpc[w] = "for" /\ tpc'[w] = "read") =>
                /\ tidx'[w] = tidx[w]
                /\ tickets_to_process'[w] = tickets_to_process[w]
          /\ (tpc[w] = "for" /\ tpc'[w] # tpc[w]) => tpc'[w] \in {"read", "sleep"}
          /\ CycleEnds(w) => tidx[w] = Len(tickets_to_process[w]) + 1]_vars

\* C3 witness: the processing of the snapshot's first ticket failed and the
\* loop is applying the trailing stop of the second in the same cycle.
C3_Witness ==
    \E w \in Threads :
        /\ failedAt[w] = 1
        /\ tidx[w] = 2
        /\ tpc[w] = "apply"

\* C4: a thread for which stop_worker was called begins no other cycle: it
\* never again passes the test of `while worker_running`.
C4_StopObserved ==
    [][\A w \in Threads :
          (tpc[w] = "while" /\ tpc'[w] = "snapshot") => ~Signalled(w)]_vars

\* C5: start_worker creates a thread only when the controller is not
\* Running, and then exactly one; called while Running it changes nothing
\* (it only logs its warning).
C5_StartIdempotent ==
    [][/\ Spawned' # Spawned =>
             /\ ~Running
             /\ Spawned \subseteq Spawned'
             /\ Cardinality(Spawned') = Cardinality(Spawned) + 1
       /\ (cpc = "idle" /\ cpc' = "start_else") =>
             /\ Running
             /\ UNCHANGED <<regVars, termVars, worker_running, worker_thread,
                            thrVars, histVars, apiVars, listVars>>]_vars

\* C5 witness: start_worker was called while the loop of an earlier start is
\* running a cycle; it is in its else branch and one thread exists.
C5_Witness ==
    /\ cpc = "start_else"
    /\ Running
    /\ tpc[worker_thread] = "apply"
    /\ Cardinality(Spawned) = 1

\* no ticket is the key of two entries of d
NoDuplicates(d) ==
    \A i, j \in 1..Len(d) : d[i].ticket = d[j].ticket => i = j

\* the entries for ticket t in the list l of get_active_worker_jobs_list
EntriesOf(l, t) == {i \in 1..Len(l) : l[i].position_ticket = t}

AddCalled(a) ==
    /\ apc[a] = "idle"
    /\ apc'[a] = "add_in" \/ (apc'[a] = "done" /\ aret'[a].op = "add")

\* C7: an upsert for a ticket whose position is not open never reaches the
\* write: the call is over at once without True, and the registry is as
\* before; so it is whenever the lookup finds no position (result False).
C7_UpsertNotFound ==
    [][\A a \in ApiThreads :
          /\ (AddCalled(a) /\ aargs'[a].ticket \notin positions) =>
                /\ apc'[a] = "done"
                /\ aret'[a].result \in {"False", "raised"}
                /\ active_trailing_stop_jobs' = active_trailing_stop_jobs
          /\ (AddCalled(a) /\ apc'[a] = "done" /\ aret'[a].result = "False") =>
                active_trailing_stop_jobs' = active_trailing_stop_jobs]_vars

\* C7 witness: an upsert with another distance for a job whose position has
\* closed returned False, and the job has its previous distance.
C7_Witness ==
    \E a \in ApiThreads :
        /\ apc[a] = "done"
        /\ aret[a] = [op |-> "add", result |-> "False"]
        /\ aargs[a].ticket \notin positions
        /\ Has(active_trailing_stop_jobs, aargs[a].ticket)
        /\ Get(active_trailing_stop_jobs, aargs[a].ticket) # aargs[a].distance

\* caller a enters remove_trailing_stop_job_from_worker in this step
RemoveCalled(a) ==
    /\ apc[a] = "idle"
    /\ apc'[a] = "remove_del" \/ (apc'[a] = "done" /\ aret'[a].op = "remove")

\* d without the entry of ticket t, every other entry as it is and where it is
Without(d, t) ==
    [i \in 1..(Len(d) - 1) |-> IF i < IndexOf(d, t) THEN d[i] ELSE d[i + 1]]

\* C8: remove for a ticket without a job returns False and leaves the
\* registry as it is; the removal of a ticket that has a job returns True and
\* takes exactly that entry out.
C8_RemoveFrame ==
    [][\A a \in ApiThreads :
          /\ (RemoveCalled(a) /\ ~Has(active_trailing_stop_jobs, aargs'[a].ticket)) =>
                /\ apc'[a] = "done"
                /\ aret'[a].result = "False"
                /\ active_trailing_stop_jobs' = active_trailing_stop_jobs
          /\ (RemoveCalled(a) /\ Has(active_trailing_stop_jobs, aargs'[a].ticket)) =>
                /\ apc'[a] = "remove_del"
                /\ active_trailing_stop_jobs' = active_trailing_stop_jobs
          /\ (apc[a] = "remove_del" /\ apc'[a] = "done"
                 /\ Has(active_trailing_stop_jobs, aargs[a].ticket)) =>
                /\ aret'[a].result = "True"
                /\ active_trailing_stop_jobs' =
                       Without(active_trailing_stop_jobs, aargs[a].ticket)]_vars

\* C8 witness: a remove has returned True, its ticket is no key any more and
\* the job that was stored behind it is still there.
C8_Witness ==
    \E a \in ApiThreads :
        /\ apc[a] = "done"
        /\ aret[a] = [op |-> "remove", result |-> "True"]
        /\ aargs[a].ticket = 1
        /\ active_trailing_stop_jobs = <<Entry(2, 80)>>

\* C9: no remove call raises, whoever else removes the same ticket: neither
\* a caller's nor the loop's.
C9_RemoveNeverRaises ==
    /\ \A a \in ApiThreads :
          ~(apc[a] = "done" /\ aret[a] = [op |-> "remove", result |-> "raised"])
    /\ \A w \in Threads : ~(tpc[w] = "except" /\ exc[w] = "KeyError")

\* C10: a list call that is over has returned a list, and the list is the
\* registry content of some instant of the call.
C10_ListPointInTime ==
    \A a \in ApiThreads :
        (apc[a] = "done" /\ aret[a].op = "list") =>
            /\ aret[a].result = "returned"
            /\ instants[a] # {}

\* C11: a position that closes while its job is processed, after the loop
\* found it and before the re-query, costs the loop no uncaught error; the
\* processing of its job goes on to the re-query and from there to the
\* removal, and the job is no key of the registry any more when the cycle
\* ends.
C11_ClosedMidCycleRemoved ==
    [][\A w \in Threads :
          /\ InTry(tpc[w]) => tpc'[w] # "dead"
          /\ (tpc[w] \in {"apply", "send", "after"} /\ tpc'[w] # tpc[w]
                 /\ Ticket(w) \notin positions) =>
                tpc'[w] \in {"after", "remove"}
          /\ CycleEnds(w) =>
                \A t \in absentSeen[w] \cap applySeen[w] :
                    ~Has(active_trailing_stop_jobs', t)]_vars

\* C12: the loop turns to the removal of a job only when the position is
\* gone, not when a lookup of an open position came back without a result.
C12_RemoveOnlyWhenGone ==
    [][\A w \in Threads :
          (tpc[w] \in {"before", "after"} /\ tpc'[w] = "remove") =>
              Ticket(w) \notin positions]_vars

\* apply_trailing_stop returns None to thread w in this step because the
\* tick or the symbol info is missing or the terminal refused the request
TransientFailure(w) ==
    /\ tpc[w] \in {"apply", "send"}
    /\ tpc'[w] = "after"
    /\ result'[w].ret = "None"
    /\ result'[w].why \in {"tick", "info", "send"}

\* C13: for a job whose position stays open, a missing tick, missing symbol
\* info or a refused modification leaves the registry (the job and its
\* distance) and the stop as they are, and so does the re-query that
\* follows: the job is not turned over to the removal. Every cycle takes
\* every key of the registry into its snapshot and reads the distance of
\* every ticket that still is a key (nothing counts retries).
C13_TransientRetained ==
    [][\A w \in Threads :
          /\ TransientFailure(w) =>
                /\ active_trailing_stop_jobs' = active_trailing_stop_jobs
                /\ sl' = sl
          /\ (tpc[w] = "after" /\ tpc'[w] # "after"
                 /\ result[w].ret = "None"
                 /\ result[w].why \in {"tick", "info", "send"}
                 /\ Ticket(w) \in positions) =>
                /\ active_trailing_stop_jobs' = active_trailing_stop_jobs
                /\ tpc'[w] # "remove"
          /\ (tpc[w] = "snapshot" /\ tpc'[w] = "for") =>
                tickets_to_process'[w] =
                    [i \in 1..Len(active_trailing_stop_jobs) |->
                        active_trailing_stop_jobs[i].ticket]
          /\ (tpc[w] = "read" /\ tpc'[w] = "before") =>
                \E i \in 1..Len(active_trailing_stop_jobs) :
                    active_trailing_stop_jobs[i] =
                        Entry(Ticket(w), trailing_distance'[w])]_vars

\* what the calculator decides for the ticket thread w is applying
Decided(w) ==
    computeNewStop(ptype[Ticket(w)], price, sl[Ticket(w)],
                   trailing_distance[w] * Sub).decision

Called(type) == cin.type = type

\* the candidate of the call (price minus distance for a long position,
\* price plus distance for a short one)
Candidate == calculated_sl(cin.type, cin.price, cin.dist)

\* C15: for a long position, whenever the calculator accepts a new stop, the
\* rounded value it submits is greater than or equal to the stop read from
\* the position.
C15_LongNeverLowers ==
    (Called("buy") /\ cout.decision = "NewStop") => cout.value >= cin.sl

\* C15 witness: a long position with a stop gets a higher stop, computed
\* from a fractional distance and therefore rounded.
C15_Witness ==
    /\ Called("buy")
    /\ cin.sl # 0
    /\ cin.dist % Sub # 0
    /\ cout.decision = "NewStop"
    /\ cout.value > cin.sl

\* C16: for a short position with a stop (0 means no stop is set), whenever
\* the calculator accepts a new stop, the rounded value it submits is less
\* than or equal to the stop read from the position.
C16_ShortNeverRaises ==
    (Called("sell") /\ cin.sl # 0 /\ cout.decision = "NewStop") =>
        cout.value <= cin.sl

\* C16 witness: a short position with a stop gets a lower stop, computed
\* from a fractional distance and therefore rounded.
C16_Witness ==
    /\ Called("sell")
    /\ cin.sl # 0
    /\ cin.dist % Sub # 0
    /\ cout.decision = "NewStop"
    /\ cout.value < cin.sl

\* C17 as stated: the calculator returns NoChangeNeeded if and only if the
\* position has a nonzero stop and that stop differs from the candidate by
\* less than 0.1 x pointSize.
C17_NoChangeIffWithinTolerance ==
    (Called("buy") \/ Called("sell")) =>
        (cout.decision = "NoChangeNeeded" <=>
            /\ cin.sl # 0
            /\ cin.sl - Candidate < tolerance
            /\ Candidate - cin.sl < tolerance)

\* C17 amended: the calculator returns NoChangeNeeded if and only if the
\* position has a nonzero stop, neither the stop nor the candidate is at or
\* beyond the price (the call is not rejected), and the candidate does not
\* improve on the stop by more than 0.1 x pointSize: it is at most
\* stop + 0.1 x pointSize for a long position, at least
\* stop - 0.1 x pointSize for a short one, however far on the other side.
C17_NoChangeIffNotImproved ==
    /\ Called("buy") =>
          (cout.decision = "NoChangeNeeded" <=>
              /\ cin.sl # 0
              /\ cin.sl < cin.price
              /\ Candidate < cin.price
              /\ Candidate <= cin.sl + tolerance)
    /\ Called("sell") =>
          (cout.decision = "NoChangeNeeded" <=>
              /\ cin.sl # 0
              /\ cin.sl > cin.price
              /\ Candidate > cin.price
              /\ Candidate >= cin.sl - tolerance)

\* C17 witness: NoChangeNeeded for a long position whose stop is a whole
\* point above the candidate.
C17_Witness ==
    /\ Called("buy")
    /\ cout.decision = "NoChangeNeeded"
    /\ cin.sl - Candidate >= Sub

\* C18 as stated: the calculator returns Reject if and only if the candidate
\* is at or above the price for a long position, at or below it for a short
\* one.
C18_RejectIffCandidateWrongSide ==
    /\ Called("buy") =>
          (cout.decision = "Reject" <=> Candidate >= cin.price)
    /\ Called("sell") =>
          (cout.decision = "Reject" <=> Candidate <= cin.price)

\* C18 amended: the calculator returns Reject if and only if the effective
\* new stop is on the wrong side of the price: for a long position the
\* candidate or the existing stop is at or above the price; for a short
\* position the candidate or the existing nonzero stop is at or below it.
C18_RejectIffEffectiveWrongSide ==
    /\ Called("buy") =>
          (cout.decision = "Reject" <=>
              (Candidate >= cin.price \/ cin.sl >= cin.price))
    /\ Called("sell") =>
          (cout.decision = "Reject" <=>
              (Candidate <= cin.price
                  \/ (cin.sl # 0 /\ cin.sl <= cin.price)))

\* C18 witness: a long position is rejected although its candidate is below
\* the price, because its stop is not.
C18_Witness ==
    /\ Called("buy")
    /\ cout.decision = "Reject"
    /\ Candidate < cin.price
    /\ cin.sl >= cin.price

\* C19: every stop the calculator hands over for submission is, after
\* rounding, strictly below the price used for a long position and strictly
\* above it for a short one, whatever the distance.
C19_SubmittedStrictlyProtective ==
    cout.decision = "NewStop" =>
        /\ Called("buy") => cout.value < cin.price
        /\ Called("sell") => cout.value > cin.price

\* C20 as stated: with stop 0, distance 100 points and the price at 1.1050,
\* the stop the loop submits for the long position is 1.1040.
C20_Scenario1Stop11040 ==
    \A w \in Threads :
        (/\ tpc[w] = "send"
         /\ request[w].type = "buy"
         /\ request[w].prev = 0
         /\ request[w].price = Sub * 11050
         /\ trailing_distance[w] = 100) =>
            request[w].sl = Sub * 11040

\* C20 amended: with distance 100 points and the price at 1.1050, the stop
\* the loop submits for the long position is 1.0950, and it submits it only
\* for a position without a stop: once the modification succeeded, the
\* following cycles at the same price submit nothing.
C20_Scenario1Stop10950 ==
    \A w \in Threads :
        (/\ tpc[w] = "send"
         /\ request[w].type = "buy"
         /\ request[w].price = Sub * 11050
         /\ trailing_distance[w] = 100) =>
            /\ request[w].prev = 0
            /\ request[w].sl = Sub * 10950

\* C20 witness: the stop is 1.0950 after a successful modification, the
\* price is still 1.1050, and a following cycle found nothing to change.
C20_Witness ==
    \E w \in Threads :
        /\ result[w] = [ret |-> "message", why |-> "NoChangeNeeded"]
        /\ Ticket(w) \in positions
        /\ sl[Ticket(w)] = Sub * 10950
        /\ price = Sub * 11050
        /\ Has(active_trailing_stop_jobs, Ticket(w))
        /\ Get(active_trailing_stop_jobs, Ticket(w)) = 100

\* C21: for a long position with a nonzero stop, when the candidate is
\* exactly one point above the stop and below the price, the calculator
\* returns NewStop and the stop it hands over is the candidate.
C21_OnePointImprovementUpdates ==
    (/\ Called("buy")
     /\ cin.sl # 0
     /\ Candidate = cin.sl + Sub
     /\ Candidate < cin.price) =>
        /\ cout.decision = "NewStop"
        /\ cout.value = Candidate

\* C21 witness: the calculator was called for a long position with a stop,
\* a candidate one point above it and two points below the price, and it
\* decided for the candidate.
C21_Witness ==
    /\ Called("buy")
    /\ cin.sl # 0
    /\ Candidate = cin.sl + Sub
    /\ cin.price = Candidate + 2 * Sub
    /\ cout = [decision |-> "NewStop", value |-> Candidate]

\* C22: a stop-loss modification of the loop that the terminal accepts
\* leaves the position's take-profit as it was immediately before the
\* submission.
C22_TakeProfitPreserved ==
    [][\A w \in Threads :
          (tpc[w] = "send" /\ tpc'[w] = "after" /\ result'[w].ret = "dict") =>
              tp'[Ticket(w)] = tp[Ticket(w)]]_vars

\* caller thread a returns Removed from remove_trailing_stop_job_from_worker
\* in this step
RemoveReturns(a) ==
    /\ apc[a] = "remove_del"
    /\ aret'[a] = [op |-> "remove", result |-> "True"]

\* C23: when the removal returns Removed the ticket is no key of the
\* registry, and it becomes a key again only by the write of an upsert; the
\* loop begins the processing of a ticket only while it is a key, and it
\* gets to apply_trailing_stop and to order_send only within a processing.
\* So after the removal, until the ticket is enabled again, only a
\* processing that had begun before can still submit a modification.
C23_RemovalStaleOnce ==
    [][/\ \A a \in ApiThreads :
             RemoveReturns(a) =>
                 ~Has(active_trailing_stop_jobs', aargs[a].ticket)
       /\ \A t \in Tickets :
             (~Has(active_trailing_stop_jobs, t)
                 /\ Has(active_trailing_stop_jobs', t)) =>
                 \E a \in ApiThreads :
                     /\ apc[a] = "add_write"
                     /\ apc'[a] = "done"
                     /\ aargs[a].ticket = t
       /\ \A w \in Threads :
             /\ (tpc[w] # "before" /\ tpc'[w] = "before") =>
                   /\ tpc[w] = "read"
                   /\ Has(active_trailing_stop_jobs, Ticket(w))
             /\ (tpc[w] # "apply" /\ tpc'[w] = "apply") => tpc[w] = "before"
             /\ (tpc[w] # "send" /\ tpc'[w] = "send") => tpc[w] = "apply"
             /\ (tpc[w] \in {"before", "apply", "send"}
                    /\ tpc'[w] \in {"before", "apply", "send"}) =>
                   Ticket(w)' = Ticket(w)]_vars

\* C23 witness: the removal has returned Removed, the ticket is no key, and
\* the loop, whose processing of that ticket was in flight, is about to
\* submit a modification for it.
C23_Witness ==
    \E a \in ApiThreads, w \in Threads :
        /\ aret[a] = [op |-> "remove", result |-> "True"]
        /\ tpc[w] = "send"
        /\ Ticket(w) = aargs[a].ticket
        /\ ~Has(active_trailing_stop_jobs, Ticket(w))

\* C24: every job held in the registry has a positive trailing distance.
C24_DistancesPositive ==
    \A i \in 1..Len(active_trailing_stop_jobs) :
        active_trailing_stop_jobs[i].distance > 0

\* stop_worker has returned after a start, and start_worker was not called
\* since: the shutdown path of the hosting service (app.py 58-60) is through
ShutdownDone == cpc = "idle" /\ worker_thread = 0 /\ Spawned # {}

\* C25: once the shutdown path is through, no loop thread begins a cycle:
\* none passes the test of `while worker_running` any more.
C25_NoCycleAfterShutdown ==
    [][\A w \in Threads :
          (ShutdownDone /\ tpc[w] = "while") => tpc'[w] # "snapshot"]_vars

\* C26: stop_worker always returns, and when it returns from its wait the
\* controller is Stopped (it holds no handle) and no worker thread was
\* touched: a loop still executing is left as it is.
C26_StopReturns ==
    /\ (cpc = "joining") ~> (cpc = "idle" /\ worker_thread = 0)
    /\ [][(cpc = "joining" /\ cpc' # "joining") =>
             /\ cpc' = "idle"
             /\ worker_thread' = 0
             /\ tpc' = tpc
             /\ worker_running' = worker_running]_vars

\* C26 witness: stop_worker has returned while the loop it was to stop is
\* still inside a call of the terminal.
C26_Witness ==
    /\ cpc = "idle"
    /\ worker_thread = 0
    /\ \E w \in Threads : tpc[w] = "apply"

\* C27: for a position that is neither long nor short apply_trailing_stop
\* submits nothing, and what it returns is neither what it returns for a
\* rejected stop (a message) nor what it returns for a failure of the
\* terminal (None).
C27_UnknownSideDistinct ==
    [][\A w \in Threads :
          (tpc[w] = "apply" /\ tpc'[w] = "after"
              /\ result'[w].why = "type") =>
              /\ ptype[Ticket(w)] \notin {"buy", "sell"}
              /\ request'[w] = NoRequest
              /\ sl' = sl
              /\ result'[w].ret # "message"
              /\ result'[w].ret # "None"]_vars

\* C28: when close_position_endpoint returns after the terminal closed the
\* position, the ticket is no key of the registry; the steps of the call up
\* to the close, and its return for a close that failed (no position, no
\* tick, a refusal, an exception), leave the registry as it is.
C28_CloseRemovesJob ==
    [][\A a \in ApiThreads :
          /\ (apc[a] \in {"close_in", "close_del"} /\ apc'[a] = "done") =>
                /\ aargs[a].ticket \notin positions
                /\ ~Has(active_trailing_stop_jobs', aargs[a].ticket)
          /\ (apc[a] = "close_send" /\ apc'[a] # "close_send") =>
                /\ active_trailing_stop_jobs' = active_trailing_stop_jobs
                /\ apc'[a] = "done" =>
                      /\ aret'[a].result \in {"failed", "raised"}
                      /\ positions' = positions
          /\ (apc[a] = "idle" /\ apc'[a] = "done" /\ aret'[a].op = "close") =>
                /\ active_trailing_stop_jobs' = active_trailing_stop_jobs
                /\ positions' = positions]_vars

\* C28 witness: the endpoint has closed position 1 and returned; the job of
\* ticket 1 is gone, the job of ticket 2 is in the registry.
C28_Witness ==
    \E a \in ApiThreads :
        /\ apc[a] = "done"
        /\ aret[a] = [op |-> "close", result |-> "closed"]
        /\ aargs[a].ticket = 1
        /\ positions = {2}
        /\ Keys(active_trailing_stop_jobs) = <<2>>

\* the tickets of the positions close_all_positions has closed for thread a
ClosedBy(a) ==
    {results[a][i].request.position : i \in 1..Len(results[a])}

\* C29: when close_all_positions_endpoint returns, no ticket of a position
\* it closed is a key of the registry; its removals take away no job of
\* another position.
C29_CloseAllRemovesJobs ==
    [][\A a \in ApiThreads :
          /\ (apc[a] = "closeall_rm" /\ apc'[a] = "done") =>
                \A t \in ClosedBy(a) : ~Has(active_trailing_stop_jobs', t)
          /\ (apc[a] = "closeall_rm" /\ close_tickets'[a] # close_tickets[a]) =>
                \A t \in Tickets \ ClosedBy(a) :
                    Has(active_trailing_stop_jobs, t) =>
                        Has(active_trailing_stop_jobs', t)]_vars

\* thread w is alive and inside a cycle of the loop (lines 27-77)
Cycling(w) ==
    tpc[w] \in {"snapshot", "for", "read", "before", "apply", "send", "after",
                "remove", "except", "sleep"}

\* C30: at most one loop thread is alive and running cycles.
C30_SingleLoop == Cardinality({w \in Threads : Cycling(w)}) <= 1

\* the terminal accepts the modification thread w submitted in this step
Accepted(w) == tpc[w] = "send" /\ tpc'[w] = "after" /\ result'[w].ret = "dict"

\* C31: every modification of the loop that the terminal accepts leaves a
\* long position's stop greater than or equal to, and a short position's
\* nonzero stop less than or equal to, the stop the position had immediately
\* before the submission.
C31_StopOnlyRatchets ==
    [][\A w \in Threads :
          Accepted(w) =>
              LET t == Ticket(w)
              IN /\ ptype[t] = "buy" => sl'[t] >= sl[t]
                 /\ (ptype[t] = "sell" /\ sl[t] # 0) => sl'[t] <= sl[t]]_vars

\* C32: the calculator never hands over a no-op: every stop it decides to
\* submit differs, after the rounding to the symbol's digits, from the stop
\* it read from the position.
C32_NoNoOpSubmitted ==
    cout.decision = "NewStop" => cout.value # cin.sl

\* the "message" of what apply_trailing_stop returned (lib.py 312, 320, 338,
\* 346)
Message(res, type) ==
    IF res.why = "NoChangeNeeded" THEN "No SL update needed"
    ELSE IF type = "buy"
    THEN "No SL update needed - new SL is above current price"
    ELSE "No SL update needed - new SL is below current price"

\* What the loop logs for the result of apply_trailing_stop (lines 46-52 of
\* the worker): an error for None, nothing for the message "No SL update
\* needed", else "Trailing stop applied successfully".
Report(res, type) ==
    IF res.ret = "None" THEN "failed"
    ELSE IF res.ret = "message" /\ Message(res, type) = "No SL update needed"
    THEN "nothing"
    ELSE "applied"

\* C33: the loop reports "applied successfully" only for a modification
\* that was submitted in this processing and accepted by the terminal, never
\* for a Reject, a NoChangeNeeded or a failure.
C33_AppliedOnlyWhenAccepted ==
    [][\A w \in Threads :
          (tpc[w] \in {"apply", "send"} /\ tpc'[w] = "after"
              /\ Report(result'[w], ptype[Ticket(w)]) = "applied") =>
              /\ Accepted(w)
              /\ sl'[Ticket(w)] = request[w].sl]_vars

\* C34: a step of the loop changes the registry only by taking out the
\* entry of the ticket it is processing, every other entry staying as it is
\* and where it is (no job inserted, no distance changed, no other job
\* removed); and the loop turns to a removal only from a position lookup of
\* that ticket, in the same processing.
C34_LoopOnlyRemovesOwn ==
    [][\A w \in Threads :
          /\ ((tpc'[w] # tpc[w] \/ tidx'[w] # tidx[w])
                 /\ active_trailing_stop_jobs' # active_trailing_stop_jobs) =>
                /\ tpc[w] = "remove"
                /\ Has(active_trailing_stop_jobs, Ticket(w))
                /\ active_trailing_stop_jobs' =
                       Without(active_trailing_stop_jobs, Ticket(w))
          /\ (tpc[w] # "remove" /\ tpc'[w] = "remove") =>
                /\ tpc[w] \in {"before", "after"}
                /\ Ticket(w)' = Ticket(w)]_vars

\* C34 witness: the caller has just enabled ticket 2 (after ticket 1) and
\* done nothing since; position 2 closed, the loop did not find it and took
\* its job out; the job of ticket 1 is in the registry with its distance.
C34_Witness ==
    \E w \in Threads :
        /\ apc[1] = "done"
        /\ aret[1] = [op |-> "add", result |-> "True"]
        /\ aargs[1] = Entry(2, 80)
        /\ 2 \in absentSeen[w]
        /\ tpc[w] = "for"
        /\ tickets_to_process[w] = <<1, 2>>
        /\ active_trailing_stop_jobs = <<Entry(1, 50)>>

\* caller thread a has returned True from an upsert for ticket t and made no
\* call since
Upserted(a, t) ==
    /\ apc[a] = "done"
    /\ aret[a] = [op |-> "add", result |-> "True"]
    /\ aargs[a].ticket = t

Querying(w, t) == tpc[w] = "before" /\ Ticket(w) = t

\* C36: a job that stays in the registry is not starved by a loop that
\* keeps running: the loop queries its position again and again; and in
\* every cycle the snapshot holds every key of the registry, the loop passes
\* a ticket of the snapshot only after the query of its processing or when
\* the ticket is no key, and the cycle ends only behind the last ticket.
C36_NoJobStarved ==
    /\ \A w \in Threads, t \in Tickets :
          <>[](Alive(w) /\ tpc[w] # "spawned" /\ Has(active_trailing_stop_jobs, t))
              => []<>Querying(w, t)
    /\ [][\A w \in Threads :
             /\ (tpc[w] = "snapshot" /\ tpc'[w] = "for") =>
                   \A t \in Tickets :
                       Has(active_trailing_stop_jobs, t) =>
                           \E i \in 1..Len(tickets_to_process'[w]) :
                               tickets_to_process'[w][i] = t
             /\ (tidx[w] > 0 /\ tidx'[w] = tidx[w] + 1) =>
                   \/ tpc[w] = "for" /\ ~Has(active_trailing_stop_jobs, Ticket(w))
                   \/ InTry(tpc[w])
             /\ (~InTry(tpc[w]) /\ InTry(tpc'[w])) =>
                   /\ tpc[w] = "read"
                   /\ tpc'[w] = "before"
             /\ CycleEnds(w) => tidx[w] = Len(tickets_to_process[w]) + 1]_vars

\* C36 witness: ticket 2 was enabled behind ticket 1; both are in the
\* cycle's snapshot, the processing of ticket 1 is over and the loop
\* queries the position of ticket 2.
C36_Witness ==
    \E w \in Threads :
        /\ tickets_to_process[w] = <<1, 2>>
        /\ Querying(w, 2)
        /\ active_trailing_stop_jobs = <<Entry(1, 50), Entry(2, 50)>>

\* the hosting thread takes a step of start_worker or stop_worker
ControllerStep ==
    cpc' # cpc \/ worker_thread' # worker_thread \/ Spawned' # Spawned

\* C37: no step of start_worker or stop_worker changes the registry;
\* stop_worker called while no loop is running only logs its warning and
\* changes nothing; the write of an upsert stores its job and returns True
\* whatever the loop's state; and the first snapshot of a loop thread, a
\* restarted one included, is the list of the registry's keys.
C37_LifecycleLeavesRegistry ==
    [][/\ ControllerStep =>
             active_trailing_stop_jobs' = active_trailing_stop_jobs
       /\ (cpc = "idle" /\ cpc' \in {"joining", "stop_else"} /\ ~Running) =>
             /\ cpc' = "stop_else"
             /\ UNCHANGED <<regVars, termVars, worker_running, worker_thread,
                            thrVars, histVars, apiVars, listVars>>
       /\ (cpc = "stop_else" /\ cpc' # cpc) =>
             /\ cpc' = "idle"
             /\ UNCHANGED <<regVars, termVars, worker_running, worker_thread,
                            thrVars, histVars, apiVars, listVars>>
       /\ \A a \in ApiThreads :
             (apc[a] = "add_write" /\ apc'[a] = "done") =>
                 /\ aret'[a].result = "True"
                 /\ Has(active_trailing_stop_jobs', aargs[a].ticket)
                 /\ Get(active_trailing_stop_jobs', aargs[a].ticket) =
                        aargs[a].distance
       /\ \A w \in Threads :
             (tpc[w] = "snapshot" /\ tpc'[w] = "for") =>
                 /\ Len(tickets_to_process'[w]) = Len(active_trailing_stop_jobs)
                 /\ \A i \in 1..Len(active_trailing_stop_jobs) :
                        tickets_to_process'[w][i] =
                            active_trailing_stop_jobs[i].ticket]_vars

\* C37 witness: the first loop thread has ended after a stop_worker, the
\* job of ticket 1 is in the registry with its distance, and the thread of
\* a later start_worker is processing it.
C37_Witness ==
    /\ tpc[1] = "exited"
    /\ worker_thread = 2
    /\ tpc[2] = "before"
    /\ Ticket(2) = 1
    /\ trailing_distance[2] = 50
    /\ active_trailing_stop_jobs = <<Entry(1, 50)>>

====
